---- MODULE Spec2Model ----
\* Multi-party claimable balance contract (src/src/lib.rs): the instance
\* storage (Init flag, Balance record), the token balances of the asset it
\* moves, and the ledger clock.  One action per contract entry point.
EXTENDS Integers, Sequences, FiniteSets, TLC

\* ---------------------------------------------------------------- bounds
MaxLen == 3
MaxTime == 2
InitialFunds == 2

\* ------------------------------------------------------- program constants
MaxBeneficiaries == 10

\* ------------------------------------------------------------- identities
Depositor == "D"
Escrow == "E"
Ids == {"X"}
Claimants == Ids \cup {Depositor}
Accounts == Ids \cup {Depositor, Escrow}
Amounts == {-1, 0, 1}
TimeStamps == {1}
Kinds == {"Before", "After"}

RECURSIVE SeqsUpTo(_, _)
SeqsUpTo(S, n) == IF n = 0 THEN {<<>>}
                  ELSE SeqsUpTo(S, n - 1) \cup
                       {s \o <<x>> : s \in SeqsUpTo(S, n - 1), x \in S}

\* A list over the cap, to reach the TooManyBeneficiaries branch.
LongList == [i \in 1..(MaxBeneficiaries + 1) |-> "X"]
BenLists == SeqsUpTo(Claimants, MaxLen) \cup {LongList}

NoRecord == [none |-> TRUE]

Range(s) == {s[i] : i \in DOMAIN s}

\* Vec::contains
Contains(s, x) == \E i \in DOMAIN s : s[i] = x

VARIABLES init, balance, tok, now, call, claimsOk

vars == <<init, balance, tok, now, call, claimsOk>>

CheckTimeBound_Strict(tb, t) ==
    IF tb.kind = "Before" THEN t < tb.timestamp ELSE t > tb.timestamp

\* check_time_bound
CheckTimeBound(tb, t) ==
    IF tb.kind = "Before" THEN t <= tb.timestamp ELSE t >= tb.timestamp

Transfer_Lossy(bal, from, to, amt) == [bal EXCEPT ![from] = @ - amt]

\* token::Client::transfer: a negative amount or a spend over the sender's
\* balance aborts the invocation; besides, the token contract (chosen by the
\* depositor) may reject any transfer, e.g. a recipient without trustline or
\* deauthorized, a frozen sender.  accepts is that contract's verdict.
TransferOk(bal, from, amt, accepts) == accepts /\ amt >= 0 /\ bal[from] >= amt
Transfer(bal, from, to, amt) ==
    [bal EXCEPT ![from] = @ - amt, ![to] = @ + amt]

DepositErr_NoInitCheck(initialized, from, amt, len, auth, bal, accepts) ==
    IF amt < 0 THEN "InvalidAmount"
    ELSE IF len > MaxBeneficiaries THEN "TooManyBeneficiaries"
    ELSE IF ~auth THEN "Unauthorized"
    ELSE IF ~TransferOk(bal, from, amt * len, accepts) THEN "TransferFailed"
    ELSE "ok"

DepositErr_AuthFirst(initialized, from, amt, len, auth, bal, accepts) ==
    IF amt < 0 THEN "InvalidAmount"
    ELSE IF len > MaxBeneficiaries THEN "TooManyBeneficiaries"
    ELSE IF ~auth THEN "Unauthorized"
    ELSE IF initialized THEN "AlreadyInitialized"
    ELSE IF ~TransferOk(bal, from, amt * len, accepts) THEN "TransferFailed"
    ELSE "ok"

\* deposit: the first failing precondition, or "ok" (the list enters the
\* checks only through its length)
DepositErr(initialized, from, amt, len, auth, bal, accepts) ==
    IF amt < 0 THEN "InvalidAmount"
    ELSE IF len > MaxBeneficiaries THEN "TooManyBeneficiaries"
    ELSE IF initialized THEN "AlreadyInitialized"
    ELSE IF ~auth THEN "Unauthorized"
    ELSE IF ~TransferOk(bal, from, amt * len, accepts) THEN "TransferFailed"
    ELSE "ok"

Init ==
    /\ init = FALSE
    /\ balance = NoRecord
    /\ tok = [a \in Accounts |-> IF a = Depositor THEN InitialFunds ELSE 0]
    /\ now \in 0..MaxTime
    /\ call = [op |-> "none", err |-> "none", who |-> "none", auth |-> FALSE,
               amt |-> 0, n |-> 0, accepts |-> TRUE]
    /\ claimsOk = [i \in Claimants |-> 0]

Deposit ==
    \E from \in Claimants, amt \in Amounts, len \in {Len(b) : b \in BenLists},
       auth \in BOOLEAN, accepts \in BOOLEAN :
        LET err == DepositErr(init, from, amt, len, auth, tok, accepts)
            total == amt * len
        IN /\ call' = [op |-> "deposit", err |-> err, who |-> from,
                       auth |-> auth, amt |-> amt, n |-> len, accepts |-> accepts]
           /\ IF err = "ok"
              THEN \E bens \in {b \in BenLists : Len(b) = len},
                      k \in Kinds, ts \in TimeStamps :
                   /\ tok' = Transfer(tok, from, Escrow, total)
                   /\ balance' = [token |-> "T", amount_per_beneficiary |-> amt,
                                  total_amount |-> total, beneficiaries |-> bens,
                                  claimed_beneficiaries |-> <<>>,
                                  time_bound |-> [kind |-> k, timestamp |-> ts]]
                   /\ init' = TRUE
              ELSE UNCHANGED <<tok, balance, init>>
           /\ UNCHANGED <<now, claimsOk>>

ClaimErr_NoClaimedCheck(auth, bal, who, t, tb, accepts) ==
    IF ~auth THEN "Unauthorized"
    ELSE IF bal = NoRecord THEN "NotInitialized"
    ELSE IF ~Contains(bal.beneficiaries, who) THEN "NotABeneficiary"
    ELSE IF ~CheckTimeBound(bal.time_bound, t) THEN "TimeBoundNotSatisfied"
    ELSE IF ~TransferOk(tb, Escrow, bal.amount_per_beneficiary, accepts)
         THEN "TransferFailed"
    ELSE "ok"

ClaimErr_NoListCheck(auth, bal, who, t, tb, accepts) ==
    IF ~auth THEN "Unauthorized"
    ELSE IF bal = NoRecord THEN "NotInitialized"
    ELSE IF ~CheckTimeBound(bal.time_bound, t) THEN "TimeBoundNotSatisfied"
    ELSE IF Contains(bal.claimed_beneficiaries, who) THEN "AlreadyClaimed"
    ELSE IF ~TransferOk(tb, Escrow, bal.amount_per_beneficiary, accepts)
         THEN "TransferFailed"
    ELSE "ok"

ClaimErr_GateFirst(auth, bal, who, t, tb, accepts) ==
    IF ~auth THEN "Unauthorized"
    ELSE IF bal = NoRecord THEN "NotInitialized"
    ELSE IF ~CheckTimeBound(bal.time_bound, t) THEN "TimeBoundNotSatisfied"
    ELSE IF ~Contains(bal.beneficiaries, who) THEN "NotABeneficiary"
    ELSE IF Contains(bal.claimed_beneficiaries, who) THEN "AlreadyClaimed"
    ELSE IF ~TransferOk(tb, Escrow, bal.amount_per_beneficiary, accepts)
         THEN "TransferFailed"
    ELSE "ok"

\* claim: the first failing precondition, or "ok"
ClaimErr(auth, bal, who, t, tb, accepts) ==
    IF ~auth THEN "Unauthorized"
    ELSE IF bal = NoRecord THEN "NotInitialized"
    ELSE IF ~Contains(bal.beneficiaries, who) THEN "NotABeneficiary"
    ELSE IF ~CheckTimeBound(bal.time_bound, t) THEN "TimeBoundNotSatisfied"
    ELSE IF Contains(bal.claimed_beneficiaries, who) THEN "AlreadyClaimed"
    ELSE IF ~TransferOk(tb, Escrow, bal.amount_per_beneficiary, accepts)
         THEN "TransferFailed"
    ELSE "ok"

ClaimedRecord_NoDecrement(bal, who) ==
    LET claimed == Append(bal.claimed_beneficiaries, who)
    IN IF Len(claimed) = Len(bal.beneficiaries)
       THEN NoRecord
       ELSE [bal EXCEPT !.claimed_beneficiaries = claimed]

ClaimedRecord_KeepAll(bal, who) ==
    [bal EXCEPT !.total_amount = @ - bal.amount_per_beneficiary,
                !.claimed_beneficiaries = Append(@, who)]

ClaimedRecord_Prepend(bal, who) ==
    LET claimed == <<who>> \o bal.claimed_beneficiaries
    IN IF Len(claimed) = Len(bal.beneficiaries)
       THEN NoRecord
       ELSE [bal EXCEPT !.total_amount = @ - bal.amount_per_beneficiary,
                        !.claimed_beneficiaries = claimed]

ClaimedRecord_DoubleDecrement(bal, who) ==
    LET claimed == Append(bal.claimed_beneficiaries, who)
    IN IF Len(claimed) = Len(bal.beneficiaries)
       THEN NoRecord
       ELSE [bal EXCEPT !.total_amount = @ - 2 * bal.amount_per_beneficiary,
                        !.claimed_beneficiaries = claimed]

\* The record after a successful claim by who: None once every slot of the
\* list is claimed, else the record with total_amount decreased.
ClaimedRecord(bal, who) ==
    LET claimed == Append(bal.claimed_beneficiaries, who)
    IN IF Len(claimed) = Len(bal.beneficiaries)
       THEN NoRecord
       ELSE [bal EXCEPT !.total_amount = @ - bal.amount_per_beneficiary,
                        !.claimed_beneficiaries = claimed]

Claim ==
    \E who \in Claimants, auth \in BOOLEAN, accepts \in BOOLEAN :
        LET err == ClaimErr(auth, balance, who, now, tok, accepts)
        IN /\ call' = [op |-> "claim", err |-> err, who |-> who, auth |-> auth,
                       amt |-> 0, n |-> 0, accepts |-> accepts]
           /\ IF err = "ok"
              THEN /\ tok' = Transfer(tok, Escrow, who,
                                      balance.amount_per_beneficiary)
                   /\ balance' = ClaimedRecord(balance, who)
                   /\ claimsOk' = [claimsOk EXCEPT ![who] = @ + 1]
              ELSE UNCHANGED <<tok, balance, claimsOk>>
           /\ UNCHANGED <<init, now>>

\* The ledger clock moves forward between invocations.
Tick ==
    /\ now < MaxTime
    /\ now' = now + 1
    /\ call' = [op |-> "tick", err |-> "none", who |-> "none", auth |-> FALSE,
                amt |-> 0, n |-> 0, accepts |-> TRUE]
    /\ UNCHANGED <<init, balance, tok, claimsOk>>

Next == Deposit \/ Claim \/ Tick

Spec == Init /\ [][Next]_vars

\* ------------------------------------------- i128 arithmetic of deposit
\* total_amount = amount_per_beneficiary * beneficiaries.len() as i128 is
\* evaluated in 128-bit two's complement.  Values are little-endian
\* sequences of 16-bit limbs.  Whether an overflowing product panics or
\* wraps depends on the build's overflow-checks setting, so both builds
\* are explored.
I128Bits == 128
LimbBits == 16
NLimbs == I128Bits \div LimbBits
Base == 2^LimbBits
Half == Base \div 2
DepositorFunds == 1000
Builds == {"overflow_checks", "wrapping"}

Small(v) == [i \in 1..NLimbs |-> IF i = 1 THEN v ELSE 0]
Pow2(k) == [i \in 1..NLimbs |-> IF i = k \div LimbBits + 1
                                THEN 2^(k % LimbBits) ELSE 0]
I128Max == [i \in 1..NLimbs |-> IF i = NLimbs THEN Half - 1 ELSE Base - 1]
BigAmounts == {Small(0), Small(1), Small(100), Pow2(126),
               [Pow2(125) EXCEPT ![1] = 1], I128Max}

\* a * m with the full carry: NLimbs + 1 limbs, the mathematical product
RECURSIVE MulLimbs(_, _, _, _)
MulLimbs(a, m, i, carry) ==
    IF i > Len(a) THEN <<carry>>
    ELSE LET v == a[i] * m + carry
         IN <<v % Base>> \o MulLimbs(a, m, i + 1, v \div Base)
Product(a, m) == MulLimbs(a, m, 1, 0)

\* the product of two non-negative values exceeds i128::MAX
Overflows(p) == p[NLimbs + 1] # 0 \/ p[NLimbs] >= Half
\* the low 128 bits, as the wrapping build stores them
Wrap(p) == SubSeq(p, 1, NLimbs)
IsNegative(w) == w[NLimbs] >= Half
\* value of w when it fits the low limb
SmallValue(w) == IF \A i \in 2..NLimbs : w[i] = 0 THEN w[1] ELSE Base

\* deposit with a non-negative amount, a list of len <= 10 and the
\* depositor authorized: the multiplication, then the token transfer.
Deposit128 ==
    /\ ~init
    /\ \E a \in BigAmounts, len \in 0..MaxBeneficiaries, build \in Builds :
        LET p == Product(a, len)
            w == Wrap(p)
            err == IF Overflows(p) /\ build = "overflow_checks" THEN "Overflow"
                   ELSE IF IsNegative(w) \/ SmallValue(w) > tok[Depositor]
                        THEN "TransferFailed"
                   ELSE "ok"
        IN /\ call' = [op |-> "deposit128", err |-> err, who |-> build,
                       auth |-> TRUE, amt |-> a, n |-> len, accepts |-> TRUE]
           /\ IF err = "ok"
              THEN /\ tok' = Transfer(tok, Depositor, Escrow, SmallValue(w))
                   /\ balance' = [amount_per_beneficiary |-> a,
                                  total_amount |-> w, n |-> len]
                   /\ init' = TRUE
              ELSE UNCHANGED <<tok, balance, init>>
           /\ UNCHANGED <<now, claimsOk>>

Init128 ==
    /\ init = FALSE
    /\ balance = NoRecord
    /\ tok = [x \in Accounts |-> IF x = Depositor THEN DepositorFunds ELSE 0]
    /\ now = 0
    /\ call = [op |-> "none", err |-> "none", who |-> "none", auth |-> FALSE,
               amt |-> Small(0), n |-> 0, accepts |-> TRUE]
    /\ claimsOk = [i \in Claimants |-> 0]

Next128 == Deposit128

Spec128 == Init128 /\ [][Next128]_vars

\* ------------------------------------------------------------------ claims

DepositStep == call'.op = "deposit"
ClaimStep == call'.op = "claim"
Unchanged3 == UNCHANGED <<init, balance, tok>>

\* C1 (as stated): once a deposit has succeeded, every later deposit fails
\* with AlreadyInitialized whatever its parameters, and Init stays set.
C1_Original == [][init => (init' /\ (DepositStep => call'.err = "AlreadyInitialized"))]_vars

\* C1 (amended): once a deposit has succeeded, Init stays set and every later
\* deposit fails without effect; it fails with AlreadyInitialized whenever
\* the amount is >= 0 and the list has at most 10 entries (the amount and
\* length checks come first).
C1_Amended ==
    [][init => (/\ init'
                /\ DepositStep => /\ call'.err # "ok"
                                  /\ Unchanged3
                                  /\ (call'.amt >= 0 /\ call'.n <= MaxBeneficiaries)
                                       => call'.err = "AlreadyInitialized")]_vars
C1_Witness == init /\ balance = NoRecord /\ call.op = "deposit"
              /\ call.err = "AlreadyInitialized"

\* C2 (as stated): every identity has at most one successful claim, and a
\* claim by an identity that already claimed fails with AlreadyClaimed and
\* moves nothing.
C2_AtMostOneClaim == \A i \in Claimants : claimsOk[i] <= 1
C2_Original ==
    /\ [](C2_AtMostOneClaim)
    /\ [][(ClaimStep /\ claimsOk[call'.who] >= 1)
          => (call'.err = "AlreadyClaimed" /\ Unchanged3)]_vars

\* C2 (amended): every identity has at most one successful claim; any later
\* claim by it fails (AlreadyClaimed, or an earlier check such as
\* NotInitialized once the record is removed or TimeBoundNotSatisfied once a
\* Before bound has passed) and moves nothing.
C2_Amended ==
    /\ [](C2_AtMostOneClaim)
    /\ [][(ClaimStep /\ claimsOk[call'.who] >= 1)
          => (call'.err # "ok" /\ Unchanged3)]_vars
C2_Witness == call.op = "claim" /\ call.err = "AlreadyClaimed"
              /\ claimsOk[call.who] = 1

\* C3: with a record present and the caller authorized, a claim by an
\* identity outside the list fails with NotABeneficiary and changes nothing.
C3_NotABeneficiary ==
    [][(ClaimStep /\ call'.auth /\ balance # NoRecord
        /\ ~Contains(balance.beneficiaries, call'.who))
       => (call'.err = "NotABeneficiary" /\ Unchanged3)]_vars
C3_Witness == call.op = "claim" /\ call.err = "NotABeneficiary"
              /\ balance # NoRecord /\ call.who \in Ids

\* C4 (as stated): a listed, not yet claimed, authorized beneficiary
\* succeeds iff the time gate holds (both bounds inclusive); otherwise
\* TimeBoundNotSatisfied with no state change.
Gate(tb, t) == (tb.kind = "Before" /\ t <= tb.timestamp)
               \/ (tb.kind = "After" /\ t >= tb.timestamp)
C4_Original ==
    [][(ClaimStep /\ call'.auth /\ balance # NoRecord
        /\ Contains(balance.beneficiaries, call'.who)
        /\ ~Contains(balance.claimed_beneficiaries, call'.who))
       => IF Gate(balance.time_bound, now)
          THEN call'.err = "ok"
          ELSE call'.err = "TimeBoundNotSatisfied" /\ Unchanged3]_vars
\* C4 (amended): for a listed, not yet claimed, authorized beneficiary:
\* if the time gate fails (both bounds inclusive) the claim fails with
\* TimeBoundNotSatisfied and no change; if it holds, the claim succeeds
\* when the token contract accepts the payout and otherwise fails with
\* TransferFailed and no change.
C4_Amended ==
    [][(ClaimStep /\ call'.auth /\ balance # NoRecord
        /\ Contains(balance.beneficiaries, call'.who)
        /\ ~Contains(balance.claimed_beneficiaries, call'.who))
       => IF Gate(balance.time_bound, now)
          THEN IF call'.accepts THEN call'.err = "ok"
               ELSE call'.err = "TransferFailed" /\ Unchanged3
          ELSE call'.err = "TimeBoundNotSatisfied" /\ Unchanged3]_vars
C4_Witness == call.op = "claim" /\ call.err = "ok"
              /\ balance # NoRecord /\ now = balance.time_bound.timestamp

\* C5: while the record exists, claimed_beneficiaries is a subset of
\* beneficiaries and total_amount = amount_per_beneficiary * (|bens| - |claimed|).
C5_RecordInvariant ==
    balance # NoRecord =>
        /\ Range(balance.claimed_beneficiaries) \subseteq Range(balance.beneficiaries)
        /\ balance.total_amount =
             balance.amount_per_beneficiary
               * (Len(balance.beneficiaries) - Len(balance.claimed_beneficiaries))
C5_Witness == balance # NoRecord /\ Len(balance.claimed_beneficiaries) > 0
              /\ balance.amount_per_beneficiary > 0

\* C6: while the record exists, |claimed_beneficiaries| < |beneficiaries|.
C6_NotExhausted ==
    balance # NoRecord =>
        Len(balance.claimed_beneficiaries) < Len(balance.beneficiaries)

\* C7: once every distinct listed beneficiary has claimed, the record is
\* gone and the escrow account holds 0.
C7_AllClaimedEmpties ==
    (init /\ (balance = NoRecord \/
              Range(balance.beneficiaries) \subseteq Range(balance.claimed_beneficiaries)))
    => (balance = NoRecord /\ tok[Escrow] = 0)

\* C8: while the record exists, its beneficiaries list has no repeats.
C8_DistinctBeneficiaries ==
    balance # NoRecord =>
        \A i, j \in DOMAIN balance.beneficiaries :
            i # j => balance.beneficiaries[i] # balance.beneficiaries[j]

\* C9: deposit reports the first failing check in the order amount < 0,
\* length > 10, Init set, not authorized; a failed deposit moves no funds
\* and writes neither Balance nor Init; an amount of 0 passes the amount check.
C9_DepositOrder ==
    [][DepositStep =>
        /\ (call'.amt < 0 => call'.err = "InvalidAmount")
        /\ (call'.amt >= 0 /\ call'.n > MaxBeneficiaries
              => call'.err = "TooManyBeneficiaries")
        /\ (call'.amt >= 0 /\ call'.n <= MaxBeneficiaries /\ init
              => call'.err = "AlreadyInitialized")
        /\ (call'.amt >= 0 /\ call'.n <= MaxBeneficiaries /\ ~init /\ ~call'.auth
              => call'.err = "Unauthorized")
        /\ (call'.err # "ok" => Unchanged3)]_vars
C9_Witness == call.op = "deposit" /\ call.err = "Unauthorized" /\ call.amt = 0

\* C10: a successful deposit stores total_amount = amount * |bens| with
\* claimed_beneficiaries empty, sets Init, and moves exactly total_amount
\* from the depositor to the escrow account.
C10_DepositEffect ==
    [][(DepositStep /\ call'.err = "ok") =>
        /\ balance' # NoRecord
        /\ balance'.total_amount = call'.amt * call'.n
        /\ balance'.amount_per_beneficiary = call'.amt
        /\ Len(balance'.beneficiaries) = call'.n
        /\ balance'.claimed_beneficiaries = <<>>
        /\ init'
        /\ tok'[call'.who] = tok[call'.who] - balance'.total_amount
        /\ tok'[Escrow] = tok[Escrow] + balance'.total_amount]_vars
C10_Witness == call.op = "deposit" /\ call.err = "ok" /\ call.n = 2
               /\ call.amt = 1
\* C11: claim reports the first failing check in the order Unauthorized,
\* NotInitialized, NotABeneficiary, TimeBoundNotSatisfied, AlreadyClaimed;
\* a claim without a record never creates one.
C11_ClaimOrder ==
    [][ClaimStep =>
        /\ (~call'.auth => call'.err = "Unauthorized")
        /\ (call'.auth /\ balance = NoRecord
              => call'.err = "NotInitialized" /\ balance' = NoRecord)
        /\ (call'.auth /\ balance # NoRecord
            /\ ~Contains(balance.beneficiaries, call'.who)
              => call'.err = "NotABeneficiary")
        /\ (call'.auth /\ balance # NoRecord
            /\ Contains(balance.beneficiaries, call'.who)
            /\ ~Gate(balance.time_bound, now)
              => call'.err = "TimeBoundNotSatisfied")
        /\ (call'.auth /\ balance # NoRecord
            /\ Contains(balance.beneficiaries, call'.who)
            /\ Gate(balance.time_bound, now)
            /\ Contains(balance.claimed_beneficiaries, call'.who)
              => call'.err = "AlreadyClaimed")]_vars
C11_Witness == init /\ balance = NoRecord /\ call.op = "claim"
               /\ call.err = "NotInitialized"

\* C12: a failed deposit or claim changes neither Init, the record nor any
\* balance; a successful claim moves exactly amount_per_beneficiary from the
\* escrow to the claimant, appends the claimant, and removes the record if
\* every slot is now claimed, else stores it with total_amount reduced.
C12_Atomicity ==
    [][/\ ((DepositStep \/ ClaimStep) /\ call'.err # "ok" => Unchanged3)
       /\ ((ClaimStep /\ call'.err = "ok") =>
            LET apb == balance.amount_per_beneficiary
                who == call'.who
                c == Append(balance.claimed_beneficiaries, who)
            IN /\ tok'[Escrow] = tok[Escrow] - apb
               /\ tok'[who] = tok[who] + apb
               /\ \A a \in Accounts \ {Escrow, who} : tok'[a] = tok[a]
               /\ IF Len(c) = Len(balance.beneficiaries)
                  THEN balance' = NoRecord
                  ELSE /\ balance' # NoRecord
                       /\ balance'.claimed_beneficiaries = c
                       /\ balance'.total_amount = balance.total_amount - apb)]_vars
C12_Witness == call.op = "claim" /\ call.err = "TransferFailed"
               /\ balance # NoRecord /\ balance.amount_per_beneficiary > 0

\* C13: a successful claim that keeps the record leaves token,
\* amount_per_beneficiary, beneficiaries and time_bound as they were and
\* appends exactly the claimant to claimed_beneficiaries.
C13_ClaimFrame ==
    [][(ClaimStep /\ call'.err = "ok" /\ balance' # NoRecord) =>
        /\ balance'.token = balance.token
        /\ balance'.amount_per_beneficiary = balance.amount_per_beneficiary
        /\ balance'.beneficiaries = balance.beneficiaries
        /\ balance'.time_bound = balance.time_bound
        /\ balance'.claimed_beneficiaries =
             Append(balance.claimed_beneficiaries, call'.who)]_vars
C13_Witness == balance # NoRecord /\ Len(balance.claimed_beneficiaries) = 2
               /\ balance.claimed_beneficiaries[1] # balance.claimed_beneficiaries[2]

\* C15: with the escrow starting at 0, its balance equals total_amount
\* while the record exists, and the sum of all balances never changes.
SumOf(f, S) == LET RECURSIVE Sm(_) 
                   Sm(T) == IF T = {} THEN 0
                            ELSE LET a == CHOOSE a \in T : TRUE
                                 IN f[a] + Sm(T \ {a})
               IN Sm(S)
C15_EscrowMatches ==
    /\ (balance # NoRecord => tok[Escrow] = balance.total_amount)
    /\ SumOf(tok, Accounts) = InitialFunds
C15_Witness == balance # NoRecord /\ Len(balance.claimed_beneficiaries) = 1
               /\ tok[Escrow] > 0

\* C16: funds leave the escrow only through a successful claim by a listed
\* beneficiary, exactly amount_per_beneficiary at a time; no account other
\* than the escrow gains except as a listed beneficiary claiming (no refund
\* path: a depositor gains only if listed and claiming); the escrow never
\* goes below 0 (outflow <= deposited).
C16_OutflowOnlyToBeneficiaries ==
    /\ [][/\ (tok'[Escrow] < tok[Escrow]) =>
              /\ ClaimStep /\ call'.err = "ok"
              /\ balance # NoRecord
              /\ Contains(balance.beneficiaries, call'.who)
              /\ tok[Escrow] - tok'[Escrow] = balance.amount_per_beneficiary
              /\ tok'[call'.who] - tok[call'.who] = balance.amount_per_beneficiary
          /\ \A a \in Accounts \ {Escrow} :
                tok'[a] > tok[a] =>
                    /\ ClaimStep /\ call'.err = "ok" /\ call'.who = a
                    /\ balance # NoRecord
                    /\ Contains(balance.beneficiaries, a)]_vars
    /\ [](tok[Escrow] >= 0)
C16_Witness == call.op = "claim" /\ call.err = "ok" /\ tok[call.who] > 0

\* C17: claimed_beneficiaries never repeats an identity, so its length never
\* exceeds the number of distinct listed identities.
C17_ClaimedDistinct ==
    balance # NoRecord =>
        /\ \A i, j \in DOMAIN balance.claimed_beneficiaries :
              i # j => balance.claimed_beneficiaries[i] # balance.claimed_beneficiaries[j]
        /\ Len(balance.claimed_beneficiaries) <= Cardinality(Range(balance.beneficiaries))
C17_Witness == balance # NoRecord /\ Len(balance.claimed_beneficiaries) = 1
               /\ Len(balance.beneficiaries) = 2
               /\ balance.beneficiaries[1] = balance.beneficiaries[2]

\* C14: a deposit that passes validation either stores the exact
\* mathematical product amount_per_beneficiary * |beneficiaries| (which
\* fits in i128) or fails with no effect; a wrapped total is never stored.
C14_NoWrappedTotal ==
    (call.op = "deposit128" /\ call.err = "ok") =>
        /\ ~Overflows(Product(call.amt, call.n))
        /\ balance.total_amount = Wrap(Product(call.amt, call.n))
====
